---- MODULE Spec2Model ----
\* HiddenOutcomeGame (contracts/HiddenOutcomeGame.sol): the player ledger and the
\* three state-changing entry points joinGame, fightMonster and heal, with the
\* encrypted integers modelled by their decoded value (kept at the width of the
\* type) and the set of addresses allowed on the ciphertext.
EXTENDS Integers, Naturals, FiniteSets, Sequences, TLC

VARIABLES players, last, calls, fed, ui

vars == <<players, last, calls, fed, ui>>

\* ---------------------------------------------------------------- bounds
\* The number of transactions a behaviour holds.
MaxCalls == 4

\* The addresses that send transactions, and the contract's own address.
Ids == {1, 2}
This == 0

\* The largest scalar of the specification that fights once with every scalar:
\* 0..181 holds every pair (scalar mod 2, scalar mod 91).
MaxScalar == 181

\* The scalars the randomizer may return: 0 (even, reward 10), 90 (even, reward
\* 100), 96 (even, reward 15), 1 and 91 (odd: defeat).
Rands == {0, 1, 90, 91, 96}

\* ---------------------------------------------------------------- constants
STARTING_COINS == 1000
MIN_REWARD == 10
REWARD_SPREAD == 91
HEAL_COST == 10
MAX_HEALTH == 10
DAMAGE == 1

\* ---------------------------------------------------------------- 32-bit values
\* A uint32 is kept as two 16-bit limbs, so that the whole 32-bit range is
\* representable: n = hi * 2^16 + lo.
Base == 2^16
Byte == 2^8

U32(n) == [hi |-> (n \div Base) % Base, lo |-> n % Base]

\* ---------------------------------------------------------------- FHE library
\* A ciphertext is its handle, its decoded value and the addresses holding a
\* persistent grant on the handle. Every operation returns a fresh handle, on
\* which nobody holds a persistent grant yet. A handle is named by its type and
\* the number of the transaction that creates it: of the ciphertexts one
\* transaction creates, at most one of each type is stored.
Fresh(ty) == [ty |-> ty, tx |-> calls + 1]

FHE_asEuint32(n) == [h |-> Fresh("euint32"), val |-> U32(n), acl |-> {}]

FHE_asEuint8(n) == [h |-> Fresh("euint8"), val |-> n % Byte, acl |-> {}]

\* euint32 addition wraps modulo 2^32.
FHE_add32(a, b) ==
    LET s == a.val.lo + b.val.lo
    IN  [h |-> Fresh("euint32"),
         val |-> [hi |-> (a.val.hi + b.val.hi + (s \div Base)) % Base,
                  lo |-> s % Base],
         acl |-> {}]

\* euint32 subtraction wraps modulo 2^32.
FHE_sub32(a, b) ==
    LET d == a.val.lo - b.val.lo
        borrow == IF d < 0 THEN 1 ELSE 0
    IN  [h |-> Fresh("euint32"),
         val |-> [hi |-> (a.val.hi - b.val.hi - borrow + 2 * Base) % Base,
                  lo |-> (d + Base) % Base],
         acl |-> {}]

FHE_ge32(a, b) ==
    [h |-> Fresh("ebool"),
     val |-> \/ a.val.hi > b.val.hi
             \/ (a.val.hi = b.val.hi /\ a.val.lo >= b.val.lo),
     acl |-> {}]

\* euint8 addition and subtraction wrap modulo 2^8.
FHE_add8(a, b) == [h |-> Fresh("euint8"), val |-> (a.val + b.val) % Byte, acl |-> {}]

FHE_sub8(a, b) == [h |-> Fresh("euint8"), val |-> (a.val - b.val + Byte) % Byte, acl |-> {}]

FHE_lt8(a, b) == [h |-> Fresh("ebool"), val |-> a.val < b.val, acl |-> {}]

FHE_le8(a, b) == [h |-> Fresh("ebool"), val |-> a.val <= b.val, acl |-> {}]

FHE_gt8(a, b) == [h |-> Fresh("ebool"), val |-> a.val > b.val, acl |-> {}]

FHE_and(a, b) == [h |-> Fresh("ebool"), val |-> a.val /\ b.val, acl |-> {}]

FHE_select(c, x, y) ==
    [h |-> Fresh(x.h.ty), val |-> IF c.val THEN x.val ELSE y.val, acl |-> {}]

FHE_allow(c, who) == [c EXCEPT !.acl = @ \cup {who}]

FHE_allowThis(c) == FHE_allow(c, This)

\* ---------------------------------------------------------------- ledger
\* The value of players[a] for an address that never wrote to it: the handles
\* are the uninitialised ones (transaction 0).
NoPlayer ==
    [balance |-> [h |-> [ty |-> "euint32", tx |-> 0], val |-> U32(0), acl |-> {}],
     health |-> [h |-> [ty |-> "euint8", tx |-> 0], val |-> 0, acl |-> {}],
     joined |-> FALSE, battles |-> 0, victories |-> 0, heals |-> 0]

NoCall ==
    [op |-> "none", sender |-> This, err |-> "", events |-> <<>>,
     rand |-> -1, before |-> NoPlayer]

reduceHealth_noFloor(health, damage) == FHE_sub8(health, damage)

reduceHealth_swapped(health, damage) ==
    LET below == FHE_le8(health, damage)
    IN  FHE_select(below, FHE_sub8(health, damage), FHE_asEuint8(0))

reduceHealth(health, damage) ==
    LET below == FHE_le8(health, damage)
    IN  FHE_select(below, FHE_asEuint8(0), FHE_sub8(health, damage))

clampHealth(health) ==
    LET over == FHE_gt8(health, FHE_asEuint8(MAX_HEALTH))
    IN  FHE_select(over, FHE_asEuint8(MAX_HEALTH), health)

\* The key of the record an entry point works on: players[msg.sender].
playerSlot_fixed(sender) == 1

playerSlot(sender) == sender

allowPlayer_balanceOnly(player, sender) ==
    [player EXCEPT !.balance = FHE_allow(FHE_allowThis(@), sender)]

allowPlayer(player, sender) ==
    [player EXCEPT
        !.balance = FHE_allow(FHE_allowThis(@), sender),
        !.health = FHE_allow(FHE_allowThis(@), sender)]

\* ---------------------------------------------------------------- joinGame
joinGame_store_noHealth(player) ==
    [player EXCEPT
        !.joined = TRUE,
        !.balance = FHE_asEuint32(STARTING_COINS),
        !.battles = 0,
        !.victories = 0,
        !.heals = 0]

joinGame_store_noFlag(player) ==
    [player EXCEPT
        !.balance = FHE_asEuint32(STARTING_COINS),
        !.health = FHE_asEuint8(MAX_HEALTH),
        !.battles = 0,
        !.victories = 0,
        !.heals = 0]

joinGame_store(player) ==
    [player EXCEPT
        !.joined = TRUE,
        !.balance = FHE_asEuint32(STARTING_COINS),
        !.health = FHE_asEuint8(MAX_HEALTH),
        !.battles = 0,
        !.victories = 0,
        !.heals = 0]

joinGame_require_none(player) == TRUE

joinGame_require(player) == ~player.joined

JoinGame(sender) ==
    /\ calls < MaxCalls
    /\ joinGame_require(players[playerSlot(sender)])
    /\ players' = [players EXCEPT
                      ![playerSlot(sender)] = allowPlayer(joinGame_store(@), sender)]
    /\ last' = [op |-> "joinGame", sender |-> sender, err |-> "",
                events |-> <<[name |-> "PlayerJoined", player |-> sender]>>,
                rand |-> -1, before |-> players[sender]]
    /\ calls' = calls + 1
    /\ UNCHANGED <<fed, ui>>

JoinGameReverts(sender) ==
    /\ calls < MaxCalls
    /\ ~joinGame_require(players[playerSlot(sender)])
    /\ last' = [op |-> "joinGame", sender |-> sender, err |-> "Already joined",
                events |-> <<>>, rand |-> -1, before |-> players[sender]]
    /\ calls' = calls + 1
    /\ UNCHANGED <<players, fed, ui>>

\* ---------------------------------------------------------------- fightMonster
\* The hash of block data, sender and battle counter is an arbitrary scalar: the
\* action draws it from Rands.
fight_victory(rand) == rand % 2 = 0

fight_reward_narrow(rand) ==
    IF fight_victory(rand)
    THEN (rand % (REWARD_SPREAD - 1)) + MIN_REWARD
    ELSE 0

fight_reward(rand) ==
    IF fight_victory(rand) THEN (rand % REWARD_SPREAD) + MIN_REWARD ELSE 0

fightMonster_branch_noElse(player, rand) ==
    LET hurt == [player EXCEPT
                    !.health = reduceHealth(@, FHE_asEuint8(DAMAGE))]
    IN  IF fight_victory(rand)
        THEN [hurt EXCEPT
                 !.balance = FHE_add32(@, FHE_asEuint32(fight_reward(rand))),
                 !.victories = @ + 1]
        ELSE hurt

fightMonster_branch(player, rand) ==
    IF fight_victory(rand)
    THEN [player EXCEPT
             !.balance = FHE_add32(@, FHE_asEuint32(fight_reward(rand))),
             !.victories = @ + 1]
    ELSE [player EXCEPT
             !.health = reduceHealth(@, FHE_asEuint8(DAMAGE))]

fightMonster_store_noCount(player, rand) ==
    IF fight_victory(rand)
    THEN [fightMonster_branch(player, rand) EXCEPT !.battles = @ + 1]
    ELSE fightMonster_branch(player, rand)

fightMonster_store(player, rand) ==
    [fightMonster_branch(player, rand) EXCEPT !.battles = @ + 1]

fightMonster_event(sender, rand) ==
    [name |-> "MonsterFought", player |-> sender,
     victory |-> fight_victory(rand), reward |-> fight_reward(rand)]

fightMonster_require(player) == player.joined

\* What _random hashes besides the block data: the sender and the battle
\* counter of its record.
random_input_noCounter(sender, player) == <<sender, 0>>

random_input(sender, player) == <<sender, player.battles>>

\* fightMonster when _random returns rand.
FightMonsterWith(sender, rand) ==
    /\ fightMonster_require(players[playerSlot(sender)])
    /\ fed' = fed \cup {random_input(sender, players[playerSlot(sender)])}
    /\ players' = [players EXCEPT
                      ![playerSlot(sender)] =
                          allowPlayer(fightMonster_store(@, rand), sender)]
    /\ last' = [op |-> "fightMonster", sender |-> sender, err |-> "",
                events |-> <<fightMonster_event(sender, rand)>>,
                rand |-> rand, before |-> players[sender]]
    /\ calls' = calls + 1
    /\ UNCHANGED ui

FightMonster(sender) ==
    /\ calls < MaxCalls
    /\ \E rand \in Rands : FightMonsterWith(sender, rand)

FightMonsterReverts(sender) ==
    /\ calls < MaxCalls
    /\ ~fightMonster_require(players[playerSlot(sender)])
    /\ last' = [op |-> "fightMonster", sender |-> sender, err |-> "Join first",
                events |-> <<>>, rand |-> -1, before |-> players[sender]]
    /\ calls' = calls + 1
    /\ UNCHANGED <<players, fed, ui>>

\* ---------------------------------------------------------------- heal
heal_canHeal_coinsOnly(player) ==
    FHE_ge32(player.balance, FHE_asEuint32(HEAL_COST))

heal_canHeal(player) ==
    LET hasHealthRoom == FHE_lt8(player.health, FHE_asEuint8(MAX_HEALTH))
        hasCoins == FHE_ge32(player.balance, FHE_asEuint32(HEAL_COST))
    IN  FHE_and(hasHealthRoom, hasCoins)

heal_health(player) ==
    LET healedHealth == clampHealth(FHE_add8(player.health, FHE_asEuint8(1)))
    IN  FHE_select(heal_canHeal(player), healedHealth, player.health)

heal_balance_noSelect(player) ==
    FHE_sub32(player.balance, FHE_asEuint32(HEAL_COST))

heal_balance(player) ==
    FHE_select(heal_canHeal(player),
               FHE_sub32(player.balance, FHE_asEuint32(HEAL_COST)),
               player.balance)

heal_store_countEffective(player) ==
    [player EXCEPT
        !.health = heal_health(player),
        !.balance = heal_balance(player),
        !.heals = IF heal_canHeal(player).val THEN @ + 1 ELSE @]

heal_store(player) ==
    [player EXCEPT
        !.health = heal_health(player),
        !.balance = heal_balance(player),
        !.heals = @ + 1]

heal_event(sender, player) ==
    [name |-> "HealUsed", player |-> sender, totalHeals |-> player.heals]

heal_require_none(player) == TRUE

heal_require(player) == player.joined

Heal(sender) ==
    /\ calls < MaxCalls
    /\ heal_require(players[playerSlot(sender)])
    /\ players' = [players EXCEPT
                      ![playerSlot(sender)] = allowPlayer(heal_store(@), sender)]
    /\ last' = [op |-> "heal", sender |-> sender, err |-> "",
                events |-> <<heal_event(sender, players'[playerSlot(sender)])>>,
                rand |-> -1, before |-> players[sender]]
    /\ calls' = calls + 1
    /\ UNCHANGED <<fed, ui>>

HealReverts(sender) ==
    /\ calls < MaxCalls
    /\ ~heal_require(players[playerSlot(sender)])
    /\ last' = [op |-> "heal", sender |-> sender, err |-> "Join first",
                events |-> <<>>, rand |-> -1, before |-> players[sender]]
    /\ calls' = calls + 1
    /\ UNCHANGED <<players, fed, ui>>

\* ---------------------------------------------------------------- read accessors
\* What a view returns for playerAddress: the revert message, or the value.
getEncryptedBalance(playerAddress) ==
    IF players[playerAddress].joined
    THEN [err |-> "", ret |-> players[playerAddress].balance.h]
    ELSE [err |-> "Player not found", ret |-> <<>>]

getEncryptedHealth(playerAddress) ==
    IF players[playerAddress].joined
    THEN [err |-> "", ret |-> players[playerAddress].health.h]
    ELSE [err |-> "Player not found", ret |-> <<>>]

getPlayerStats_swapped(playerAddress) ==
    LET player == players[playerAddress]
    IN  IF player.joined
        THEN [err |-> "", ret |-> <<player.battles, player.heals, player.victories>>]
        ELSE [err |-> "Player not found", ret |-> <<>>]

getPlayerStats(playerAddress) ==
    LET player == players[playerAddress]
    IN  IF player.joined
        THEN [err |-> "", ret |-> <<player.battles, player.victories, player.heals>>]
        ELSE [err |-> "Player not found", ret |-> <<>>]

hasJoined(playerAddress) ==
    [err |-> "", ret |-> players[playerAddress].joined]

\* A view is called, by anybody, outside any transaction.
View(op, sender, playerAddress, result) ==
    /\ last' = [op |-> op, sender |-> sender, arg |-> playerAddress,
                err |-> result.err, ret |-> result.ret, events |-> <<>>]
    /\ UNCHANGED <<players, calls, fed, ui>>

GetEncryptedBalance(sender, playerAddress) ==
    View("getEncryptedBalance", sender, playerAddress,
         getEncryptedBalance(playerAddress))

GetEncryptedHealth(sender, playerAddress) ==
    View("getEncryptedHealth", sender, playerAddress,
         getEncryptedHealth(playerAddress))

GetPlayerStats(sender, playerAddress) ==
    View("getPlayerStats", sender, playerAddress, getPlayerStats(playerAddress))

HasJoined(sender, playerAddress) ==
    View("hasJoined", sender, playerAddress, hasJoined(playerAddress))

\* ---------------------------------------------------------------- specifications
\* The page of the frontend is not open.
UiClosed == [pc |-> "closed"]

Init ==
    /\ players = [a \in Ids |-> NoPlayer]
    /\ last = NoCall
    /\ calls = 0
    /\ fed = {}
    /\ ui = UiClosed

Next ==
    \/ \E sender \in Ids : JoinGame(sender)
    \/ \E sender \in Ids : JoinGameReverts(sender)
    \/ \E sender \in Ids : FightMonster(sender)
    \/ \E sender \in Ids : FightMonsterReverts(sender)
    \/ \E sender \in Ids : Heal(sender)
    \/ \E sender \in Ids : HealReverts(sender)

Spec == Init /\ [][Next]_vars

\* The entry points and the read accessors.
NextReads ==
    \/ Next
    \/ \E sender, playerAddress \in Ids : GetEncryptedBalance(sender, playerAddress)
    \/ \E sender, playerAddress \in Ids : GetEncryptedHealth(sender, playerAddress)
    \/ \E sender, playerAddress \in Ids : GetPlayerStats(sender, playerAddress)
    \/ \E sender, playerAddress \in Ids : HasJoined(sender, playerAddress)

SpecReads == Init /\ [][NextReads]_vars

\* A record the ledger holds for address a late in a game, after the calls the
\* comment of each snapshot lists; its handles come from earlier transactions
\* of a (numbered -a).
LatePlayer(a, balance, health, battles, victories, heals) ==
    [balance |-> [h |-> [ty |-> "euint32", tx |-> -a], val |-> balance,
                  acl |-> {This, a}],
     health |-> [h |-> [ty |-> "euint8", tx |-> -a], val |-> health,
                 acl |-> {This, a}],
     joined |-> TRUE, battles |-> battles, victories |-> victories,
     heals |-> heals]

\* joinGame, then 10 defeats.
Wounded(a) == LatePlayer(a, U32(1000), 0, 10, 0, 0)

\* joinGame, then 100 times (a defeat, a heal).
Broke(a) == LatePlayer(a, U32(0), 10, 100, 0, 100)

\* joinGame, a victory with scalar 96 (reward 15), 101 times (a defeat, a heal),
\* then a defeat.
Poor(a) == LatePlayer(a, U32(5), 9, 103, 1, 101)

\* joinGame, then 42949662 victories with scalar 90 (reward 100):
\* 1000 + 4294966200 = 2^32 - 96 = 65535 * 2^16 + 65440.
Rich(a) ==
    LatePlayer(a, [hi |-> 65535, lo |-> 65440], 10, 42949662, 42949662, 0)

LatePlayers(a) == {NoPlayer, Wounded(a), Broke(a), Poor(a), Rich(a)}

InitLate ==
    /\ players \in {f \in [Ids -> UNION {LatePlayers(a) : a \in Ids}] :
                       \A a \in Ids : f[a] \in LatePlayers(a)}
    /\ last = NoCall
    /\ calls = 0
    /\ fed = {}
    /\ ui = UiClosed

SpecLate == InitLate /\ [][Next]_vars

\* One fightMonster, late in a game, for every scalar up to MaxScalar.
FightMonsterScalar(sender) ==
    /\ calls < 1
    /\ \E rand \in 0..MaxScalar : FightMonsterWith(sender, rand)

NextScalars == \E sender \in Ids : FightMonsterScalar(sender)

SpecScalars == InitLate /\ [][NextScalars]_vars

\* ---------------------------------------------------------------- frontend
\* GameApp (home/src/components/GameApp.tsx), open for the connected address
\* User, whose record is joined. ui holds the React state of the component:
\*   data          the ciphertexts the useReadContract hooks hold
\*   isDecrypting  the state set by decryptState
\*   decrypted     the ciphertexts whose values the page shows
\*   rendered      data and isDecrypting as of the last render: what the
\*                 closures of that render (handlers, decryptState, effect) see
\*   pc, op, sentAt, closure   the running handleFight / handleHeal: where it
\*                 is, the call it sent, the number of transactions before it,
\*                 and the ciphertexts its decryptState closes over
\*   tasks         the decryptState calls awaiting the signature and the relayer
\* decryptState's early return (line 111) needs a missing instance, address,
\* signer or handle, none of which is missing here, and userDecrypt returns the
\* value of the handle it is given.
User == 1

\* Transactions the user sends from the page.
MaxClicks == 2

Loaded(player) == [balance |-> player.balance, health |-> player.health]

UiOpen(player) ==
    [pc |-> "idle", op |-> "none", sentAt |-> 0,
     data |-> Loaded(player), isDecrypting |-> FALSE,
     decrypted |-> Loaded(player),
     rendered |-> [data |-> Loaded(player), isDecrypting |-> FALSE],
     closure |-> Loaded(player), tasks |-> {}]

\* handleFight / handleHeal up to the sending of the transaction: the handler
\* is the one of the last render, and so is the decryptState it will call.
UiClick(op) ==
    /\ ui.pc \in {"idle", "done"}
    /\ players[User].joined
    /\ calls < MaxClicks
    /\ ui' = [ui EXCEPT !.pc = "waiting", !.op = op, !.sentAt = calls,
                        !.closure = ui.rendered.data]
    /\ UNCHANGED <<players, last, calls, fed>>

\* The transaction is mined.
UiFightMined ==
    /\ ui.pc = "waiting" /\ ui.op = "fightMonster" /\ calls = ui.sentAt
    /\ FightMonster(User)

UiHealMined ==
    /\ ui.pc = "waiting" /\ ui.op = "heal" /\ calls = ui.sentAt
    /\ Heal(User)

\* await tx.wait() returns.
UiReceipt ==
    /\ ui.pc = "waiting" /\ calls > ui.sentAt
    /\ ui' = [ui EXCEPT !.pc = "refreshing"]
    /\ UNCHANGED <<players, last, calls, fed>>

\* await refreshPlayer() returns: the hooks hold the handles now stored.
refreshPlayer(state) ==
    [state EXCEPT !.pc = "refreshed", !.data = Loaded(players[User])]

UiRefresh ==
    /\ ui.pc = "refreshing"
    /\ ui' = refreshPlayer(ui)
    /\ UNCHANGED <<players, last, calls, fed>>

\* decryptState up to its first await, on the ciphertexts cts it closes over.
decryptState(state, by, cts) ==
    [state EXCEPT !.isDecrypting = TRUE,
                  !.tasks = @ \cup {[by |-> by, cts |-> cts]}]

\* The handler calls the decryptState of the render it was created in.
UiHandlerDecrypt ==
    /\ ui.pc = "refreshed"
    /\ ui' = [decryptState(ui, "handler", ui.closure) EXCEPT !.pc = "decrypting"]
    /\ UNCHANGED <<players, last, calls, fed>>

\* A render, and the effect on [hasJoined, encryptedBalance, encryptedHealth,
\* instance] after it: it calls that render's decryptState when a handle
\* changed and that render's isDecrypting is false.
UiRender ==
    /\ ui.pc # "closed"
    /\ ui.rendered # [data |-> ui.data, isDecrypting |-> ui.isDecrypting]
    /\ LET now == [data |-> ui.data, isDecrypting |-> ui.isDecrypting]
           shown == [ui EXCEPT !.rendered = now]
       IN  ui' = IF /\ now.data # ui.rendered.data
                    /\ ~now.isDecrypting
                 THEN decryptState(shown, "effect", now.data)
                 ELSE shown
    /\ UNCHANGED <<players, last, calls, fed>>

\* A decryptState call gets its result: setDecrypted, then setIsDecrypting(false);
\* the handler that awaited it ends.
UiDecrypted ==
    /\ ui.pc # "closed"
    /\ \E task \in ui.tasks :
          ui' = [ui EXCEPT
                    !.decrypted = task.cts,
                    !.isDecrypting = FALSE,
                    !.tasks = @ \ {task},
                    !.pc = IF task.by = "handler" THEN "done" ELSE @]
    /\ UNCHANGED <<players, last, calls, fed>>

InitUI ==
    /\ players \in {f \in [Ids -> UNION {LatePlayers(a) : a \in Ids}] :
                       /\ f[User] \in LatePlayers(User) \ {NoPlayer}
                       /\ \A a \in Ids \ {User} : f[a] = NoPlayer}
    /\ last = NoCall
    /\ calls = 0
    /\ fed = {}
    /\ ui = UiOpen(players[User])

NextUI ==
    \/ \E op \in {"fightMonster", "heal"} : UiClick(op)
    \/ UiFightMined
    \/ UiHealMined
    \/ UiReceipt
    \/ UiRefresh
    \/ UiHandlerDecrypt
    \/ UiRender
    \/ UiDecrypted

SpecUI == InitUI /\ [][NextUI]_vars

\* ---------------------------------------------------------------- decoded views
\* Exact (unwrapped) arithmetic on limb pairs, to state what a balance should be:
\* the high limb of a sum may exceed 2^16 - 1.
Plus(x, n) == [hi |-> x.hi + ((x.lo + n) \div Base), lo |-> (x.lo + n) % Base]

Leq(x, y) == x.hi < y.hi \/ (x.hi = y.hi /\ x.lo <= y.lo)

Min(m, n) == IF m <= n THEN m ELSE n

Max(m, n) == IF m >= n THEN m ELSE n

Succeeded(op) == last.op = op /\ last.err = ""

\* The sender's record after the last call.
After == players[last.sender]

\* ---------------------------------------------------------------- claims
\* C1: in every reachable state the decoded health of every joined identity is
\* in [0, 10].
C1_HealthInRange ==
    \A a \in Ids : players[a].joined => players[a].health.val \in 0..MAX_HEALTH

\* Both ends of the range are held at once, after a defeat at health 0.
C1_Witness ==
    /\ Succeeded("fightMonster")
    /\ ~fight_victory(last.rand)
    /\ last.before.health.val = 0
    /\ \E a \in Ids : players[a].joined /\ players[a].health.val = MAX_HEALTH

\* C2: immediately after a successful joinGame the sender's record has joined =
\* true, decoded balance 1000, decoded health 10 and all three counters 0.
C2_JoinInitialises ==
    Succeeded("joinGame") =>
        /\ After.joined
        /\ After.balance.val = U32(1000)
        /\ After.health.val = 10
        /\ After.battles = 0 /\ After.victories = 0 /\ After.heals = 0

C2_Witness == Succeeded("joinGame") /\ ~last.before.joined

\* C3: the joined flag of an identity is never cleared, turns true only in a
\* successful joinGame of that identity, and is true after every such call.
C3_JoinedForever ==
    [][\A a \in Ids :
          /\ players[a].joined => players'[a].joined
          /\ (~players[a].joined /\ players'[a].joined) =>
                (last'.op = "joinGame" /\ last'.sender = a /\ last'.err = "")
          /\ (last'.op = "joinGame" /\ last'.sender = a /\ last'.err = ""
                /\ calls' = calls + 1) => players'[a].joined]_vars

\* An identity is joined after a fight or a heal, and the other one is not yet.
C3_Witness ==
    /\ last.op \in {"fightMonster", "heal"}
    /\ \E a, b \in Ids : players[a].joined /\ ~players[b].joined

\* C4: joinGame by an identity that has joined fails with "Already joined" and
\* leaves the whole ledger, that identity's record included, unchanged.
C4_RejoinRejected ==
    [][\A a \in Ids :
          (players[a].joined /\ calls' = calls + 1
             /\ last'.op = "joinGame" /\ last'.sender = a) =>
                /\ last'.err = "Already joined"
                /\ last'.events = <<>>
                /\ players' = players]_vars

\* A re-join was rejected on a record that fights and heals have moved away from
\* the starting one.
C4_Witness ==
    /\ last.op = "joinGame" /\ last.err = "Already joined"
    /\ After.battles > 0 /\ After.heals > 0
    /\ After.balance.val # U32(STARTING_COINS)
    /\ After.health.val # MAX_HEALTH

\* C5: fightMonster and heal by an identity that has not joined fail with
\* "Join first", change no record and no grant, and emit no event.
C5_NotJoinedRejected ==
    [][\A a \in Ids :
          (~players[a].joined /\ calls' = calls + 1
             /\ last'.op \in {"fightMonster", "heal"} /\ last'.sender = a) =>
                /\ last'.err = "Join first"
                /\ last'.events = <<>>
                /\ players' = players]_vars

C5_Witness ==
    /\ last.op = "heal" /\ last.err = "Join first"
    /\ ~After.joined
    /\ \E a \in Ids : players[a].joined

\* C6: heal applies both changes or neither: with health before < 10 and balance
\* before >= 10, balance after = balance before - 10 and health after =
\* min(health before + 1, 10); otherwise balance and health are unchanged.
C6_HealAllOrNothing ==
    Succeeded("heal") =>
        LET b == last.before
        IN  IF b.health.val < 10 /\ Leq(U32(10), b.balance.val)
            THEN /\ Plus(After.balance.val, 10) = b.balance.val
                 /\ After.health.val = Min(b.health.val + 1, 10)
            ELSE /\ After.balance.val = b.balance.val
                 /\ After.health.val = b.health.val

\* A heal with room to heal and fewer than 10 coins.
C6_Witness ==
    /\ Succeeded("heal")
    /\ last.before.health.val < 10
    /\ ~Leq(U32(10), last.before.balance.val)

\* C7: heal by a joined identity is never rejected; it increments heals by
\* exactly 1 and emits HealUsed with the new total.
C7_HealAlwaysCounted ==
    [][\A a \in Ids :
          (players[a].joined /\ calls' = calls + 1
             /\ last'.op = "heal" /\ last'.sender = a) =>
                /\ last'.err = ""
                /\ players'[a].heals = players[a].heals + 1
                /\ last'.events = <<[name |-> "HealUsed", player |-> a,
                                     totalHeals |-> players[a].heals + 1]>>]_vars

\* A heal at full health and with fewer than 10 coins was counted.
C7_Witness ==
    /\ Succeeded("heal")
    /\ last.before.health.val = 10
    /\ ~Leq(U32(10), last.before.balance.val)
    /\ After.heals = last.before.heals + 1

\* C8: a successful fightMonster increments battles by exactly 1 and victories
\* by 1 if the emitted victory flag is true, by 0 if it is false.
C8_FightCounters ==
    Succeeded("fightMonster") =>
        /\ Len(last.events) = 1
        /\ last.events[1].name = "MonsterFought"
        /\ After.battles = last.before.battles + 1
        /\ After.victories =
              last.before.victories + (IF last.events[1].victory THEN 1 ELSE 0)

\* A defeat after a victory.
C8_Witness ==
    /\ Succeeded("fightMonster")
    /\ ~last.events[1].victory
    /\ After.victories > 0

\* C9: a fightMonster that results in victory leaves
\* balance before + 10 <= balance after <= balance before + 100.
C9_VictoryRaisesBalance ==
    (Succeeded("fightMonster") /\ last.events[1].victory) =>
        /\ Leq(Plus(last.before.balance.val, 10), After.balance.val)
        /\ Leq(After.balance.val, Plus(last.before.balance.val, 100))

\* C10: a fightMonster that results in defeat sets health after =
\* max(0, health before - 1).
C10_DefeatLowersHealth ==
    (Succeeded("fightMonster") /\ ~last.events[1].victory) =>
        After.health.val = Max(0, last.before.health.val - 1)

\* A defeat at health 1, reached by a heal from health 0.
C10_Witness ==
    /\ Succeeded("fightMonster")
    /\ ~last.events[1].victory
    /\ last.before.health.val = 1
    /\ After.health.val = 0

\* C11: in every reachable state the contract and the owning identity both hold
\* a grant on the handles stored as that identity's balance and health, also
\* when the call that stored them replaced a handle without changing its value.
C11_GrantsOnStoredHandles ==
    \A a \in Ids :
        players[a].joined =>
            /\ {This, a} \subseteq players[a].balance.acl
            /\ {This, a} \subseteq players[a].health.acl

\* A heal that changed neither value stored two fresh handles, both granted.
C11_Witness ==
    /\ Succeeded("heal")
    /\ After.balance.val = last.before.balance.val
    /\ After.health.val = last.before.health.val
    /\ After.balance.h # last.before.balance.h
    /\ After.health.h # last.before.health.h
    /\ {This, last.sender} \subseteq After.balance.acl
    /\ {This, last.sender} \subseteq After.health.acl

\* C12 as stated: getEncryptedBalance and getEncryptedHealth fail with "Player
\* not found" unless the identity has joined, getPlayerStats returns the three
\* counters of the queried identity, hasJoined never fails and returns the
\* flag, and no read accessor changes any state.
ReadOps == {"getEncryptedBalance", "getEncryptedHealth", "getPlayerStats", "hasJoined"}

ReadsGuarded ==
    last.op \in {"getEncryptedBalance", "getEncryptedHealth"} =>
        IF players[last.arg].joined
        THEN /\ last.err = ""
             /\ last.ret = (IF last.op = "getEncryptedBalance"
                            THEN players[last.arg].balance.h
                            ELSE players[last.arg].health.h)
        ELSE last.err = "Player not found"

ReadsFlag ==
    last.op = "hasJoined" =>
        last.err = "" /\ last.ret = players[last.arg].joined

C12_StatsAlwaysReturned ==
    /\ ReadsGuarded
    /\ ReadsFlag
    /\ last.op = "getPlayerStats" =>
          /\ last.err = ""
          /\ last.ret = <<players[last.arg].battles, players[last.arg].victories,
                          players[last.arg].heals>>

\* C12, amended: getPlayerStats too requires the identity to have joined and
\* fails with "Player not found" otherwise; for a joined identity it returns
\* (battles, victories, heals). The state a read leaves is the state it found.
C12_ReadAccessors ==
    [][last'.op \in ReadOps =>
          /\ players' = players /\ calls' = calls /\ fed' = fed
          /\ ReadsGuarded' /\ ReadsFlag'
          /\ last'.op = "getPlayerStats" =>
                IF players[last'.arg].joined
                THEN /\ last'.err = ""
                     /\ last'.ret = <<players[last'.arg].battles,
                                      players[last'.arg].victories,
                                      players[last'.arg].heals>>
                ELSE last'.err = "Player not found"]_vars

\* The counters of an identity that has won, lost and never healed were read.
C12_Witness ==
    /\ last.op = "getPlayerStats" /\ last.err = ""
    /\ last.ret[1] > last.ret[2] /\ last.ret[2] > 0 /\ last.ret[3] = 0

\* C13: no two fightMonster calls of one identity feed the randomizer the same
\* (identity, battle counter): the input of every fight is the sender with its
\* battle counter before the call, and was never fed before.
C13_FreshRandomInput ==
    [][\A a \in Ids :
          (last'.op = "fightMonster" /\ last'.err = "" /\ last'.sender = a
             /\ calls' = calls + 1) =>
                /\ <<a, players[a].battles>> \notin fed
                /\ fed' = fed \cup {<<a, players[a].battles>>}]_vars

\* One identity has fought three times in a row.
C13_Witness ==
    \E a \in Ids : Cardinality({x \in fed : x[1] = a}) >= 3

\* The 32-bit value of an exact sum.
Wrap(x) == [hi |-> x.hi % Base, lo |-> x.lo]

\* C14: fightMonster is a victory iff the scalar is even; the emitted reward is
\* (scalar mod 91) + 10, in [10, 100], on victory and 0 on defeat; and the
\* balance grows (modulo 2^32) by the emitted reward.
C14_OutcomeOfScalar ==
    Succeeded("fightMonster") =>
        LET e == last.events[1]
            r == last.rand
        IN  /\ e.victory = (r % 2 = 0)
            /\ e.reward = (IF r % 2 = 0 THEN (r % 91) + 10 ELSE 0)
            /\ e.victory => e.reward \in 10..100
            /\ After.balance.val = Wrap(Plus(last.before.balance.val, e.reward))

\* A victory with the largest reward, added to a balance 96 below 2^32.
C14_Witness ==
    /\ Succeeded("fightMonster")
    /\ last.events[1].victory
    /\ last.events[1].reward = 100
    /\ After.balance.val = U32(4)

\* The ledger after identity a makes call c on ledger ps (ps itself if the call
\* reverts), built from the operators the actions use.
Calls ==
    {[op |-> "joinGame", rand |-> -1], [op |-> "heal", rand |-> -1]}
        \cup {[op |-> "fightMonster", rand |-> r] : r \in Rands}

Apply(ps, a, c) ==
    LET slot == playerSlot(a)
        pl == ps[slot]
    IN  CASE c.op = "joinGame" ->
                IF joinGame_require(pl)
                THEN [ps EXCEPT ![slot] = allowPlayer(joinGame_store(pl), a)]
                ELSE ps
          [] c.op = "fightMonster" ->
                IF fightMonster_require(pl)
                THEN [ps EXCEPT
                         ![slot] = allowPlayer(fightMonster_store(pl, c.rand), a)]
                ELSE ps
          [] c.op = "heal" ->
                IF heal_require(pl)
                THEN [ps EXCEPT ![slot] = allowPlayer(heal_store(pl), a)]
                ELSE ps

\* Calls of two identities give the same ledger in either order.
Commute ==
    \A a, b \in Ids :
        a # b =>
            \A ca, cb \in Calls :
                Apply(Apply(players, a, ca), b, cb)
                    = Apply(Apply(players, b, cb), a, ca)

\* C15: a call by identity a, successful or failing, leaves the record of every
\* other identity unchanged, and calls of two identities commute.
C15_OtherRecordsUntouched ==
    /\ []Commute
    /\ [][\A a, b \in Ids :
             (a # b /\ last'.sender = a /\ calls' = calls + 1) =>
                 players'[b] = players[b]]_vars

\* A successful call of one identity while the other has a record of its own.
C15_Witness ==
    /\ last.op \in {"fightMonster", "heal"} /\ last.err = ""
    /\ After # last.before
    /\ \E b \in Ids : b # last.sender /\ players[b].joined /\ players[b].battles > 0

\* C16: a victory leaves decoded health and heals unchanged; a defeat leaves
\* decoded balance, victories and heals unchanged; heal leaves battles and
\* victories unchanged.
C16_OwnFieldsOnly ==
    LET b == last.before
    IN  /\ (Succeeded("fightMonster") /\ last.events[1].victory) =>
              /\ After.health.val = b.health.val
              /\ After.heals = b.heals
        /\ (Succeeded("fightMonster") /\ ~last.events[1].victory) =>
              /\ After.balance.val = b.balance.val
              /\ After.victories = b.victories
              /\ After.heals = b.heals
        /\ Succeeded("heal") =>
              /\ After.battles = b.battles
              /\ After.victories = b.victories

\* A victory of an identity that has lost health, won and healed before.
C16_Witness ==
    /\ Succeeded("fightMonster")
    /\ last.events[1].victory
    /\ last.before.health.val \in 1..9
    /\ last.before.heals > 0
    /\ last.before.victories > 0

\* Exact products and sums on limb pairs: k * n for a small k, and x + y.
Times(k, n) ==
    LET low == k * (n % Base)
    IN  [hi |-> k * (n \div Base) + (low \div Base), lo |-> low % Base]

Sum(x, y) ==
    [hi |-> x.hi + y.hi + ((x.lo + y.lo) \div Base), lo |-> (x.lo + y.lo) % Base]

\* 1000 + 100 * victories and 1000 + 10 * victories.
MostCoins(player) == Plus(Times(100, player.victories), 1000)

LeastEarned(player) == Plus(Times(10, player.victories), 1000)

\* 10 * min(heals, battles - victories).
MostHealed(player) ==
    Times(10, Min(player.heals, player.battles - player.victories))

\* C17: for a joined identity whose balance cannot have wrapped
\* (1000 + 100 * victories < 2^32),
\* 1000 + 10 * victories - 10 * min(heals, battles - victories) <= balance
\* <= 1000 + 100 * victories.
C17_Accounting ==
    \A a \in Ids :
        (players[a].joined /\ MostCoins(players[a]).hi < Base) =>
            /\ Leq(LeastEarned(players[a]),
                   Sum(players[a].balance.val, MostHealed(players[a])))
            /\ Leq(players[a].balance.val, MostCoins(players[a]))

\* A heal has just taken 10 coins and the balance sits on the lower bound, and
\* another identity sits on the upper bound after 42949662 victories.
C17_Witness ==
    /\ Succeeded("heal")
    /\ After.balance.val # last.before.balance.val
    /\ LeastEarned(After) = Sum(After.balance.val, MostHealed(After))
    /\ \E b \in Ids :
          /\ players[b].victories > 0
          /\ players[b].balance.val = MostCoins(players[b])

\* handleFight or handleHeal has ended, no decryptState is in flight and no
\* render is due.
UiSettled ==
    /\ ui.pc = "done"
    /\ ui.tasks = {}
    /\ ui.rendered = [data |-> ui.data, isDecrypting |-> ui.isDecrypting]

\* C18: once handleFight or handleHeal has completed and every decryptState has
\* finished, the balance and health the page shows are the decryptions of the
\* handles now stored for the user, not of the handles loaded before the
\* transaction.
C18_ShowsWrittenHandles ==
    UiSettled =>
        /\ ui.decrypted.balance.h = players[User].balance.h
        /\ ui.decrypted.health.h = players[User].health.h
====
